---- MODULE Spec2Model ----
(***************************************************************************)
(* Model of raylib's text module (src/text.c): the UTF-8 decoder           *)
(* GetNextCodepoint, the glyph lookup GetGlyphIndex, the atlas builder     *)
(* GenImageFontAtlas, the two text walks MeasureTextEx / DrawTextEx, and   *)
(* the font loading LoadFontData / LoadFontEx with UnloadFont.             *)
(*                                                                         *)
(* C arrays are functions over 0..n-1 so that an index of the model is the *)
(* index of the code.  A C string is the sequence of its bytes before the  *)
(* terminating null; TextMem lays it out in memory.  The C bit operators   *)
(* on non-negative ints are written with \div, % and *.                    *)
(*                                                                         *)
(* Memory the program reads without having written it (a block RL_MALLOC   *)
(* has just delivered, an element behind the end of an array) may hold any *)
(* bits.  What is read there is Indeterminate, and so is every value       *)
(* computed from it: the model says of such a value that the program has   *)
(* it, and not which one it is.                                            *)
(***************************************************************************)
EXTENDS Integers, Sequences, FiniteSets, TLC

VARIABLES
    phase,      \* the operation in progress and its position
    text,       \* const char *text: the bytes before the terminating null
    junk,       \* the byte found in memory after the terminating null
    start,      \* GetNextCodepoint is handed &text[start]
    decoded,    \* what GetNextCodepoint returned: code, *bytesProcessed, bytes read
    font,       \* the Font handed to GetGlyphIndex and to the text walks
    codepoint,  \* the codepoint handed to GetGlyphIndex
    index,      \* what GetGlyphIndex returned: [ret |-> the index]
    atlasIn,    \* the arguments of GenImageFontAtlas and the heap it allocates from
    atlasOut,   \* what GenImageFontAtlas returned: the atlas and *charRecs
    layout,     \* the other arguments of the text walks: position, fontSize, spacing,
                \* and what lies in memory at index 63 of a shorter glyph array
    measured,   \* what MeasureTextEx returned, with the steps of its walk
    drawn,      \* what DrawTextEx has drawn, with the steps of its walk
    loadIn,     \* the load call and its arguments, the file they name, the default font
    loaded,     \* what the load call returned, with the buffers then allocated
    unloaded    \* what UnloadFont released of the loaded Font

vars == <<phase, text, junk, start, decoded, font, codepoint, index, atlasIn, atlasOut,
          layout, measured, drawn, loadIn, loaded, unloaded>>

decodeVars == <<text, junk, start, decoded>>
glyphVars == <<font, codepoint, index>>
atlasVars == <<atlasIn, atlasOut>>
walkVars == <<layout, measured, drawn>>
loadVars == <<loadIn, loaded, unloaded>>

None == [none |-> TRUE]

(***************************************************************************)
(* Bounds and input sets of the decoder.                                   *)
(***************************************************************************)
MaxTextLen == 4

\* First bytes: ASCII, stray continuation bytes, and every boundary of the
\* lead-byte classes of the UTF-8 table.
LeadBytes ==
    { \H01, \H0a, \H3f, \H41, \H7f, \H80, \Hbf, \Hc0, \Hc1, \Hc2, \Hdf,
      \He0, \He1, \Hec, \Hed, \Hee, \Hef, \Hf0, \Hf1, \Hf3, \Hf4, \Hf5,
      \Hf7, \Hf8, \Hff }

\* Following bytes: the boundaries of the continuation ranges, and one byte
\* that is no continuation byte.
TailBytes == { \H41, \H80, \H8f, \H90, \H9f, \Ha0, \Hbf }

JunkBytes == { \H00, \Hbf }

RECURSIVE SeqsUpTo(_, _)
SeqsUpTo(S, n) ==
    IF n = 0 THEN { <<>> }
    ELSE LET shorter == SeqsUpTo(S, n - 1)
         IN  shorter \cup { Append(s, b) : s \in { t \in shorter : Len(t) = n - 1 }, b \in S }

DecoderTexts ==
    { <<>> } \cup
    { <<l>> \o t : l \in LeadBytes, t \in SeqsUpTo(TailBytes, MaxTextLen - 1) }

(***************************************************************************)
(* Memory of a C string: its bytes, the terminating null, then whatever    *)
(* follows the string in memory.                                           *)
(***************************************************************************)
TextMem(t, j) ==
    [i \in 0..(Len(t) + 4) |->
        IF i < Len(t) THEN t[i + 1] ELSE IF i = Len(t) THEN 0 ELSE j]

(***************************************************************************)
(* GetNextCodepoint, src/text.c:507-611.  mem is the memory, p the offset  *)
(* of text[0] in it.  The result holds the returned code, *bytesProcessed  *)
(* and, in order, the offsets text[k] the call has read.                   *)
(***************************************************************************)
Failed(n, rd) == [code |-> \H3f, bytesProcessed |-> n, reads |-> rd]

\* (octet1 == '\0') || ((octet1 >> 6) != 2)
UnexpectedTail(o) == (o = 0) \/ ((o \div 64) # 2)

\* octet*: the read of text[k]
Octet(mem, p, k) == mem[p + k]

\* Branch (octet & 0xe0) == 0xc0, lines 531-544
TwoOctetsBadMask(mem, p) ==
    LET octet  == Octet(mem, p, 0)
        octet1 == Octet(mem, p, 1)
    IN  IF UnexpectedTail(octet1) THEN Failed(2, <<0, 1>>)
        ELSE IF (octet >= \Hc2) /\ (octet <= \Hdf)
             THEN [code |-> ((octet % 16) * 64) + (octet1 % 64),
                   bytesProcessed |-> 2, reads |-> <<0, 1>>]
             ELSE Failed(1, <<0, 1>>)

TwoOctetsNoTailCheck(mem, p) ==
    LET octet  == Octet(mem, p, 0)
        octet1 == Octet(mem, p, 1)
    IN  IF (octet >= \Hc2) /\ (octet <= \Hdf)
        THEN [code |-> ((octet % 32) * 64) + (octet1 % 64),
              bytesProcessed |-> 2, reads |-> <<0, 1>>]
        ELSE Failed(1, <<0, 1>>)

TwoOctets(mem, p) ==
    LET octet  == Octet(mem, p, 0)
        octet1 == Octet(mem, p, 1)
    IN  IF UnexpectedTail(octet1) THEN Failed(2, <<0, 1>>)
        ELSE IF (octet >= \Hc2) /\ (octet <= \Hdf)
             THEN [code |-> ((octet % 32) * 64) + (octet1 % 64),
                   bytesProcessed |-> 2, reads |-> <<0, 1>>]
             ELSE Failed(1, <<0, 1>>)

\* Branch (octet & 0xf0) == 0xe0, lines 545-572
ThreeOctetsEagerRead(mem, p) ==
    LET octet  == Octet(mem, p, 0)
        octet1 == Octet(mem, p, 1)
        octet2 == Octet(mem, p, 2)
    IN  IF UnexpectedTail(octet1) THEN Failed(2, <<0, 1, 2>>)
        ELSE IF UnexpectedTail(octet2) THEN Failed(3, <<0, 1, 2>>)
        ELSE IF ((octet = \He0) /\ ~((octet1 >= \Ha0) /\ (octet1 <= \Hbf))) \/
                ((octet = \Hed) /\ ~((octet1 >= \H80) /\ (octet1 <= \H9f)))
             THEN Failed(2, <<0, 1, 2>>)
        ELSE [code |-> ((octet % 16) * 4096) + ((octet1 % 64) * 64) + (octet2 % 64),
              bytesProcessed |-> 3, reads |-> <<0, 1, 2>>]

ThreeOctets(mem, p) ==
    LET octet  == Octet(mem, p, 0)
        octet1 == Octet(mem, p, 1)
        octet2 == Octet(mem, p, 2)
    IN  IF UnexpectedTail(octet1) THEN Failed(2, <<0, 1>>)
        ELSE IF UnexpectedTail(octet2) THEN Failed(3, <<0, 1, 2>>)
        ELSE IF ((octet = \He0) /\ ~((octet1 >= \Ha0) /\ (octet1 <= \Hbf))) \/
                ((octet = \Hed) /\ ~((octet1 >= \H80) /\ (octet1 <= \H9f)))
             THEN Failed(2, <<0, 1, 2>>)
        \* (octet >= 0xe0) && (0 <= 0xef) holds of every octet of this branch
        ELSE IF (octet >= \He0) /\ (0 <= \Hef)
             THEN [code |-> ((octet % 16) * 4096) + ((octet1 % 64) * 64) + (octet2 % 64),
                   bytesProcessed |-> 3, reads |-> <<0, 1, 2>>]
             ELSE Failed(1, <<0, 1, 2>>)

\* Branch (octet & 0xf8) == 0xf0, lines 573-606
FourOctets(mem, p) ==
    LET octet  == Octet(mem, p, 0)
        octet1 == Octet(mem, p, 1)
        octet2 == Octet(mem, p, 2)
        octet3 == Octet(mem, p, 3)
    IN  IF octet > \Hf4 THEN Failed(1, <<0>>)
        ELSE IF UnexpectedTail(octet1) THEN Failed(2, <<0, 1>>)
        ELSE IF UnexpectedTail(octet2) THEN Failed(3, <<0, 1, 2>>)
        ELSE IF UnexpectedTail(octet3) THEN Failed(4, <<0, 1, 2, 3>>)
        ELSE IF ((octet = \Hf0) /\ ~((octet1 >= \H90) /\ (octet1 <= \Hbf))) \/
                ((octet = \Hf4) /\ ~((octet1 >= \H80) /\ (octet1 <= \H8f)))
             THEN Failed(2, <<0, 1, 2, 3>>)
        ELSE IF octet >= \Hf0
             THEN [code |-> ((octet % 8) * 262144) + ((octet1 % 64) * 4096)
                            + ((octet2 % 64) * 64) + (octet3 % 64),
                   bytesProcessed |-> 4, reads |-> <<0, 1, 2, 3>>]
             ELSE Failed(1, <<0, 1, 2, 3>>)

GetNextCodepoint(mem, p) ==
    LET octet == Octet(mem, p, 0)
        r == IF octet <= \H7f
                 THEN [code |-> octet, bytesProcessed |-> 1, reads |-> <<0>>]
             ELSE IF ((octet \div 32) * 32) = \Hc0 THEN TwoOctets(mem, p)
             ELSE IF ((octet \div 16) * 16) = \He0 THEN ThreeOctets(mem, p)
             ELSE IF ((octet \div 8) * 8) = \Hf0 THEN FourOctets(mem, p)
             ELSE Failed(1, <<0>>)
    IN  \* if (code > 0x10ffff) code = 0x3f
        IF r.code > \H10ffff THEN [r EXCEPT !.code = \H3f] ELSE r

(***************************************************************************)
(* Font objects.  chars and recs are the two parallel arrays of a Font,    *)
(* functions over 0..charsCount-1.                                         *)
(***************************************************************************)
TEXT_CHARACTER_NOTFOUND == 63
DEFAULT_TTF_FONTSIZE == 32
DEFAULT_TTF_NUMCHARS == 95
DEFAULT_FIRST_CHAR == 32

SeqToArray(s) == [i \in 0..(Len(s) - 1) |-> s[i + 1]]

\* The content of memory that was never written, whatever is read there: an
\* int, a float, a whole Rectangle or glyph record.
Indeterminate == [indeterminate |-> TRUE]

\* Defined for numbers and for records alike.
IsIndeterminate(v) == ToString(v) = ToString(Indeterminate)

\* a + b, and the a that  if (a < b) a = b;  leaves: a result computed from
\* an indeterminate value is indeterminate.
Plus(a, b) ==
    IF IsIndeterminate(a) \/ IsIndeterminate(b) THEN Indeterminate ELSE a + b

Larger(a, b) ==
    IF IsIndeterminate(a) \/ IsIndeterminate(b) THEN Indeterminate
    ELSE IF a < b THEN b ELSE a

\* The glyph the rasterizer delivers for codepoint ch at the font's base size:
\* the size of the bitmap of stbtt_GetCodepointBitmap and its offsets, and
\* the advance width of stbtt_GetCodepointHMetrics.
RasterWidth(ch) == IF ch = 32 THEN 0 ELSE 1 + (ch % 3)
RasterHeight(ch) == IF ch = 32 THEN 0 ELSE 1 + (ch % 2)
RasterOffsetX(ch) == ch % 2
RasterOffsetY(ch) == 1
RasterAdvanceX(ch) ==
    IF ch = 65 THEN 5 ELSE IF ch = 105 THEN 1 ELSE IF ch = 63 THEN 0 ELSE ch % 4

\* LoadFontData, lines 149-169: the codepoints of the glyph records.  fontChars
\* is None for a NULL pointer and [at |-> array] otherwise.
FontCharValues(fontChars, charsCount) ==
    LET n == IF charsCount > 0 THEN charsCount ELSE DEFAULT_TTF_NUMCHARS
    IN  [i \in 0..(n - 1) |-> IF fontChars = None THEN i + DEFAULT_FIRST_CHAR ELSE fontChars.at[i]]

(***************************************************************************)
(* GetGlyphIndex, src/text.c:478-499 (UNORDERED_CHARSET is defined).       *)
(***************************************************************************)
\* The loop leaves with the first i whose glyph has the codepoint, and
\* with index still TEXT_CHARACTER_NOTFOUND when there is none.
GetGlyphIndex(f, cp) ==
    LET found == { i \in 0..(f.charsCount - 1) : f.chars[i].value = cp }
    IN  IF found = {} THEN TEXT_CHARACTER_NOTFOUND
        ELSE CHOOSE i \in found : \A j \in found : i <= j

(***************************************************************************)
(* GenImageFontAtlas, src/text.c:220-356.  An image's data is a function   *)
(* over 0..n-1, one byte per entry.                                        *)
(***************************************************************************)
Max(S) == CHOOSE m \in S : \A k \in S : k <= m

\* Lines 236-237: the sum of the padded glyph areas, of the glyphs lo..hi-1
\* and of all of them.  The range is summed by halves.
RECURSIVE PaddedArea(_, _, _, _)
PaddedArea(chars, padding, lo, hi) ==
    IF hi <= lo THEN 0
    ELSE IF hi = lo + 1
    THEN (chars[lo].image.width + 2 * padding) * (chars[lo].image.height + 2 * padding)
    ELSE PaddedArea(chars, padding, lo, (lo + hi) \div 2)
         + PaddedArea(chars, padding, (lo + hi) \div 2, hi)

RequiredArea(chars, charsCount, padding) == PaddedArea(chars, padding, 0, charsCount)

\* Lines 238-239: guessSize = sqrtf(requiredArea)*1.3f and the next power of
\* two, (int)powf(2, ceilf(logf(guessSize)/logf(2))): the smallest 2^k that is
\* at least 1.3*sqrt(requiredArea), that is with 100*(2^k)^2 >= 169*requiredArea.
\* The single-precision result is this one for every area below 2481837; an
\* area of 0 gives powf(2, -inf) = 0.
RECURSIVE NextPOT(_, _)
NextPOT(area, pot) ==
    IF 100 * pot * pot >= 169 * area THEN pot ELSE NextPOT(area, 2 * pot)

RECURSIVE NextPOTOfArea(_, _)
NextPOTOfArea(area, pot) ==
    IF 10 * pot * pot >= 13 * area THEN pot ELSE NextPOTOfArea(area, 2 * pot)

ImageSizeOfArea(requiredArea) ==
    IF requiredArea = 0 THEN 0 ELSE NextPOTOfArea(requiredArea, 1)

ImageSize(requiredArea) ==
    IF requiredArea = 0 THEN 0 ELSE NextPOT(requiredArea, 1)

\* Lines 259-265: the copy of one glyph bitmap to (offsetX, offsetY).  Writes
\* are made row by row, so the last row that reaches an atlas byte sets it.
CopyGlyph(data, atlasWidth, image, offsetX, offsetY) ==
    [j \in DOMAIN data |->
        LET ys == { y \in 0..(image.height - 1) :
                      (j - ((offsetY + y) * atlasWidth + offsetX)) \in 0..(image.width - 1) }
        IN  IF ys = {} THEN data[j]
            ELSE LET y == Max(ys)
                 IN  image.data[y * image.width + (j - ((offsetY + y) * atlasWidth + offsetX))]]

\* The atlas bytes the copy writes, inside and outside of the buffer.
CopyTargets(atlasWidth, image, offsetX, offsetY) ==
    { (offsetY + y) * atlasWidth + (offsetX + x) :
        y \in 0..(image.height - 1), x \in 0..(image.width - 1) }

\* Lines 255-287: iteration i of the basic packing loop.  st holds the atlas
\* data, recs, offsetX, offsetY, the number of glyphs copied, the writes made
\* outside of the atlas buffer, and whether the loop has left with break.
RowPackGlyph(chars, fontSize, padding, atlasWidth, i, st) ==
    LET image == chars[i].image
        copied == [st EXCEPT
                     !.data = CopyGlyph(st.data, atlasWidth, image, st.offsetX, st.offsetY),
                     !.outside = st.outside \cup
                         (CopyTargets(atlasWidth, image, st.offsetX, st.offsetY)
                              \ DOMAIN st.data),
                     !.recs[i] = [x |-> st.offsetX, y |-> st.offsetY,
                                  width |-> image.width, height |-> image.height],
                     !.copied = i + 1]
        nextX == st.offsetX + (image.width + 2 * padding)
        nextY == st.offsetY + (fontSize + 2 * padding)
    IN  IF nextX >= (atlasWidth - image.width - padding)
        THEN [copied EXCEPT !.offsetX = padding, !.offsetY = nextY,
                            !.stopped = nextY > (atlasWidth - fontSize - padding)]
        ELSE [copied EXCEPT !.offsetX = nextX]

\* Lines 252-288: the iterations lo..hi-1 of the loop, the first half of the
\* range and then, unless the loop has left, the second.
RECURSIVE RowPack(_, _, _, _, _, _, _)
RowPack(chars, fontSize, padding, atlasWidth, lo, hi, st) ==
    IF hi <= lo \/ st.stopped THEN st
    ELSE IF hi = lo + 1 THEN RowPackGlyph(chars, fontSize, padding, atlasWidth, lo, st)
    ELSE
      LET half == RowPack(chars, fontSize, padding, atlasWidth, lo, (lo + hi) \div 2, st)
      IN  IF half.stopped THEN half
          ELSE RowPack(chars, fontSize, padding, atlasWidth, (lo + hi) \div 2, hi, half)

\* stbrp_pack_rects of external/stb_rect_pack.h: every rectangle is offered in
\* turn and put at the lowest place of the skyline, leftmost among the lowest;
\* one that fits nowhere is left unpacked at (STBRP_MAXVAL, STBRP_MAXVAL).
\* sky[c] is the height filled in column c.
STBRP_MAXVAL == 65535

SkylineTop(sky, x, w) == IF w = 0 THEN 0 ELSE Max({ sky[c] : c \in x..(x + w - 1) })

RECURSIVE SkylinePack(_, _, _, _, _)
SkylinePack(side, rects, n, i, sky) ==
    IF i >= n THEN rects
    ELSE
      LET w == rects[i].w
          h == rects[i].h
          fits == { x \in 0..(side - w) : SkylineTop(sky, x, w) + h <= side }
      IN  IF fits = {}
          THEN SkylinePack(side, [rects EXCEPT ![i].x = STBRP_MAXVAL, ![i].y = STBRP_MAXVAL,
                                                ![i].was_packed = FALSE],
                           n, i + 1, sky)
          ELSE
            LET low == CHOOSE y \in { SkylineTop(sky, x, w) : x \in fits } :
                           \A x \in fits : y <= SkylineTop(sky, x, w)
                at  == CHOOSE x \in fits :
                           /\ SkylineTop(sky, x, w) = low
                           /\ \A x2 \in fits : SkylineTop(sky, x2, w) = low => x <= x2
            IN  SkylinePack(side, [rects EXCEPT ![i].x = at, ![i].y = low,
                                                  ![i].was_packed = TRUE],
                            n, i + 1,
                            [c \in DOMAIN sky |->
                                IF c \in at..(at + w - 1) THEN low + h ELSE sky[c]])

\* Lines 310-330: the rectangles and the copies of the packed glyphs.
RECURSIVE SkylineCopy(_, _, _, _, _, _, _)
SkylineCopy(chars, charsCount, padding, atlasWidth, rects, i, st) ==
    IF i >= charsCount THEN st
    ELSE
      LET image == chars[i].image
          withRec == [st EXCEPT !.recs[i] = [x |-> rects[i].x + padding,
                                             y |-> rects[i].y + padding,
                                             width |-> image.width,
                                             height |-> image.height]]
      IN  SkylineCopy(chars, charsCount, padding, atlasWidth, rects, i + 1,
            IF rects[i].was_packed
            THEN [withRec EXCEPT
                    !.data = CopyGlyph(st.data, atlasWidth, image,
                                       rects[i].x + padding, rects[i].y + padding),
                    !.outside = st.outside \cup
                        (CopyTargets(atlasWidth, image, rects[i].x + padding,
                                     rects[i].y + padding) \ DOMAIN st.data),
                    !.copied = st.copied + 1]
            ELSE withRec)

\* Lines 341-351: GRAYSCALE to GRAY_ALPHA.
GrayAlpha(data) ==
    [k \in 0..(2 * Cardinality(DOMAIN data) - 1) |->
        IF k % 2 = 0 THEN 255 ELSE data[k \div 2]]

\* The whole call.  heap is what the freshly allocated rectangle array holds
\* before anything is stored in it, rectangle by rectangle; the atlas data is
\* allocated zeroed.
GenImageFontAtlas(chars, charsCount, fontSize, padding, packMethod, heap) ==
    LET n == IF charsCount > 0 THEN charsCount ELSE DEFAULT_TTF_NUMCHARS
        imageSize == ImageSize(RequiredArea(chars, n, padding))
        st0 == [ data    |-> [j \in 0..(imageSize * imageSize - 1) |-> 0],
                 recs    |-> [i \in 0..(n - 1) |-> heap[i]],
                 offsetX |-> padding,
                 offsetY |-> padding,
                 copied  |-> 0,
                 outside |-> {},
                 stopped |-> FALSE ]
        rects == [i \in 0..(n - 1) |->
                    [ id |-> i,
                      w  |-> chars[i].image.width + 2 * padding,
                      h  |-> chars[i].image.height + 2 * padding,
                      x  |-> 0, y |-> 0, was_packed |-> FALSE ]]
        st == IF packMethod = 0
                  THEN RowPack(chars, fontSize, padding, imageSize, 0, n, st0)
              ELSE IF packMethod = 1
                  THEN SkylineCopy(chars, n, padding, imageSize,
                                   SkylinePack(imageSize, rects, n, 0,
                                               [c \in 0..(imageSize - 1) |-> 0]),
                                   0, st0)
              ELSE st0
    IN  [ atlas   |-> [ width |-> imageSize, height |-> imageSize,
                        data  |-> GrayAlpha(st.data) ],
          recs    |-> st.recs,
          copied  |-> st.copied,
          outside |-> st.outside ]

(***************************************************************************)
(* LoadFontData, LoadFontEx and UnloadFont, src/text.c:81-216 and 359-372. *)
(*                                                                         *)
(* A buffer is named by what holds it: Buf("chars", 0) is the glyph array, *)
(* Buf("bitmap", i) the bitmap the rasterizer allocated for glyph i,       *)
(* Buf("image", i) the crop of the atlas that replaces it.                 *)
(***************************************************************************)
Buf(kind, i) == [buf |-> kind, i |-> i]

\* The NULL pointer as a buffer: releasing it releases nothing.
NullBuf == Buf("NULL", 0)

\* The NULL pointer as an array: it holds no element.
NullArray == << >>

\* fopen and stbtt_InitFont: a file that cannot be opened, a file whose bytes
\* are no font, and a font file.
Files == { "missing", "garbage", "font" }

FileOpens(file) == file # "missing"
InitFont(file) == file = "font"

\* What the calls on a stbtt_fontinfo that stbtt_InitFont did not initialise
\* may do: fault, or deliver zeroes, or deliver junk.
WildHandles == { "crash", "zeroes", "junk" }

\* The parameter type of LoadFontData.
FontTypes == { "FONT_DEFAULT", "FONT_BITMAP", "FONT_SDF" }

SDF_CHAR_PADDING == 4
BITMAP_ALPHA_THRESHOLD == 80

\* The bitmap bytes of the glyph of codepoint ch: none is 0, some are below
\* BITMAP_ALPHA_THRESHOLD and some are not.
RasterData(ch, w, h) == [k \in 0..(w * h - 1) |-> 1 + ((16 * ch + k) % 255)]

\* stbtt_GetCodepointSDF: the distance field of the glyph's bitmap, padded on
\* all four sides.
SdfWidth(ch) == RasterWidth(ch) + 2 * SDF_CHAR_PADDING
SdfHeight(ch) == RasterHeight(ch) + 2 * SDF_CHAR_PADDING
SdfOffsetX(ch) == RasterOffsetX(ch) - SDF_CHAR_PADDING
SdfOffsetY(ch) == RasterOffsetY(ch) - SDF_CHAR_PADDING

\* (int)(n*scale) for a scale [num, den] that single precision holds exactly:
\* the conversion truncates toward zero.
ScaleInt(n, scale) ==
    IF n >= 0 THEN (n * scale.num) \div scale.den
    ELSE -(((-n) * scale.num) \div scale.den)

\* stbtt_ScaleForPixelHeight and the ascent of stbtt_GetFontVMetrics, lines
\* 142-147, as the handle delivers them.
HandleMetrics(handle, metrics) ==
    IF handle = "ok" THEN metrics
    ELSE IF handle = "junk" THEN [ascent |-> 1, scale |-> [num |-> 1, den |-> 1]]
    ELSE [ascent |-> 0, scale |-> [num |-> 0, den |-> 1]]

\* Lines 165-208: the glyph record i of codepoint ch, as read from the handle.
\* With FONT_SDF the space is not rasterized (line 178): its offsets are what
\* the allocation of chars held in the two ints, heap.offsetX and heap.offsetY,
\* or indeterminate.
LoadGlyph(i, ch, handle, type, metrics, heap) ==
    LET sdf    == type = "FONT_SDF"
        raster == ~sdf \/ ch # 32
        wild   == IF handle = "junk" THEN 1 ELSE 0
        m      == HandleMetrics(handle, metrics)
        w == IF ~raster THEN 0
             ELSE IF handle # "ok" THEN wild
             ELSE IF sdf THEN SdfWidth(ch) ELSE RasterWidth(ch)
        h == IF ~raster THEN 0
             ELSE IF handle # "ok" THEN wild
             ELSE IF sdf THEN SdfHeight(ch) ELSE RasterHeight(ch)
        xoff == IF ~raster
                THEN IF IsIndeterminate(heap) THEN Indeterminate ELSE heap.offsetX
                ELSE IF handle # "ok" THEN wild
                ELSE IF sdf THEN SdfOffsetX(ch) ELSE RasterOffsetX(ch)
        yoff == IF ~raster
                THEN IF IsIndeterminate(heap) THEN Indeterminate ELSE heap.offsetY
                ELSE IF handle # "ok" THEN wild
                ELSE IF sdf THEN SdfOffsetY(ch) ELSE RasterOffsetY(ch)
        advanceWidth == IF handle = "ok" THEN RasterAdvanceX(ch) ELSE wild
        raw  == RasterData(ch, w, h)
        \* lines 180-189
        data == IF type = "FONT_BITMAP"
                THEN [k \in DOMAIN raw |-> IF raw[k] < BITMAP_ALPHA_THRESHOLD THEN 0 ELSE 255]
                ELSE raw
    IN  [ value    |-> ch,
          offsetX  |-> xoff,
          \* line 197
          offsetY  |-> Plus(yoff, ScaleInt(m.ascent, m.scale)),
          \* line 207
          advanceX |-> ScaleInt(advanceWidth, m.scale),
          image    |-> [ width |-> w, height |-> h, data |-> data,
                         buffer |-> IF w * h > 0 THEN Buf("bitmap", i) ELSE NullBuf ] ]

\* Lines 176-178, 201 and 206: the calls on the font handle for one glyph.
GlyphQueries(ch, type) ==
    (IF type # "FONT_SDF" THEN { "stbtt_GetCodepointBitmap" }
     ELSE IF ch # 32 THEN { "stbtt_GetCodepointSDF" }
     ELSE {})
    \cup { "stbtt_GetCodepointBitmapBox", "stbtt_GetCodepointHMetrics" }

\* lines 109-216.  queries are the calls made on the font handle, allocated
\* and freed the buffers the call allocates and frees.  env is what the call
\* finds around it: wild, what an uninitialised handle does; metrics, the
\* scale and the ascent of the font file; heapChars, what the fresh glyph
\* array holds in the offsets of each glyph.
LoadFontData(file, fontSize, fontChars, charsCount, type, env) ==
    IF ~FileOpens(file)
    THEN [ crashed |-> FALSE, chars |-> NullArray, queries |-> {}, allocated |-> {}, freed |-> {} ]
    ELSE
      LET handle == IF InitFont(file) THEN "ok" ELSE env.wild
          values == FontCharValues(fontChars, charsCount)
          chars  == [i \in DOMAIN values |->
                       LoadGlyph(i, values[i], handle, type, env.metrics, env.heapChars[i])]
          own    == { Buf("fontBuffer", 0), Buf("chars", 0) } \cup
                    (IF fontChars = None THEN { Buf("fontChars", 0) } ELSE {})
      IN  IF handle = "crash"
          THEN [ crashed |-> TRUE, chars |-> NullArray,
                 queries |-> { [fn |-> "stbtt_ScaleForPixelHeight", ch |-> 0, ok |-> FALSE] },
                 allocated |-> { Buf("fontBuffer", 0) }, freed |-> {} ]
          ELSE [ crashed |-> FALSE, chars |-> chars,
                 queries |-> { [fn |-> "stbtt_ScaleForPixelHeight", ch |-> 0, ok |-> handle = "ok"],
                               [fn |-> "stbtt_GetFontVMetrics", ch |-> 0, ok |-> handle = "ok"] } \cup
                             UNION { { [fn |-> fn, ch |-> values[i], ok |-> handle = "ok"] :
                                         fn \in GlyphQueries(values[i], type) } :
                                     i \in DOMAIN values },
                 allocated |-> (own \cup { chars[i].image.buffer : i \in DOMAIN values })
                               \ { NullBuf },
                 freed |-> own \ { Buf("chars", 0) } ]

\* LoadTextureFromImage hands out a texture id no other texture has.
LoadedTextureId == 2

\* lines 81-105.  live are the buffers allocated and not freed on return;
\* heap is what the allocation of recs held, rectangle by rectangle.  Line 98
\* crops the atlas with rectangle i: an indeterminate rectangle gives an image
\* of indeterminate size.
LoadFontEx(file, fontSize, fontChars, charsCount, env, heap) ==
    LET n    == IF charsCount > 0 THEN charsCount ELSE DEFAULT_TTF_NUMCHARS
        data == LoadFontData(file, fontSize, fontChars, n, "FONT_DEFAULT", env)
    IN  IF data.crashed
        THEN [ crashed |-> TRUE, queries |-> data.queries ]
        ELSE IF data.chars = NullArray
        THEN [ crashed |-> FALSE, queries |-> data.queries,
               font |-> [ baseSize |-> fontSize, charsCount |-> n, chars |-> NullArray,
                          recs |-> NullArray, texture |-> [id |-> 0] ],
               live |-> data.allocated \ data.freed ]
        ELSE
          LET gen    == GenImageFontAtlas(data.chars, n, fontSize, 2, 0, heap)
              images == { Buf("image", i) : i \in 0..(n - 1) }
              chars  == [i \in 0..(n - 1) |->
                           [data.chars[i] EXCEPT
                              !.image =
                                  IF IsIndeterminate(gen.recs[i])
                                  THEN [ width  |-> Indeterminate,
                                         height |-> Indeterminate,
                                         buffer |-> Buf("image", i) ]
                                  ELSE [ width  |-> gen.recs[i].width,
                                         height |-> gen.recs[i].height,
                                         buffer |-> Buf("image", i) ]]]
          IN  [ crashed |-> FALSE, queries |-> data.queries,
                font |-> [ baseSize |-> fontSize, charsCount |-> n, chars |-> chars,
                           recs |-> gen.recs, texture |-> [id |-> LoadedTextureId] ],
                live |-> (data.allocated \cup { Buf("recs", 0), Buf("atlas", 0),
                                                Buf("texture", 0) } \cup images)
                         \ (data.freed \cup { Buf("atlas", 0) } \cup
                            { data.chars[i].image.buffer : i \in 0..(n - 1) }) ]

\* lines 359-372.  released are the buffers handed to UnloadImage, UnloadTexture
\* and RL_FREE, in order; nullReads the glyph records read through a NULL
\* font.chars, the first of which stops the program.
UnloadImages(f) == [k \in 1..f.charsCount |-> f.chars[k - 1].image.buffer]

UnloadFont(f, defaultTextureId) ==
    IF f.texture.id = defaultTextureId
    THEN [ crashed |-> FALSE, released |-> <<>>, nullReads |-> {} ]
    ELSE IF f.chars = NullArray /\ f.charsCount > 0
    THEN [ crashed |-> TRUE, released |-> <<>>, nullReads |-> { 0 } ]
    ELSE [ crashed |-> FALSE,
           released |-> UnloadImages(f) \o
                        << Buf("texture", 0), Buf("chars", 0), Buf("recs", 0) >>,
           nullReads |-> {} ]

\* A font file whose scale is 1 and whose ascent is 0: the glyph records hold
\* what the rasterizer delivers.
PlainMetrics == [ascent |-> 0, scale |-> [num |-> 1, den |-> 1]]

\* Fresh memory that holds zeroes: the offsets of n glyphs, and n rectangles.
ZeroOffsets == [offsetX |-> 0, offsetY |-> 0]

ZeroChars(n) == [i \in 0..(n - 1) |-> ZeroOffsets]

ZeroRec == [x |-> 0, y |-> 0, width |-> 0, height |-> 0]

ZeroRecs(n) == [i \in 0..(n - 1) |-> ZeroRec]

PlainEnv(n) == [wild |-> "zeroes", metrics |-> PlainMetrics, heapChars |-> ZeroChars(n)]

\* lines 60-76: LoadFontEx with the default size and the default charset.
\* The texture filter set at line 74 is state of the graphics device.
LoadFont(file, env, heap) ==
    LoadFontEx(file, DEFAULT_TTF_FONTSIZE, None, DEFAULT_TTF_NUMCHARS, env, heap)

\* The Font LoadFontEx returns for a font file of that kind with the glyphs
\* of the codepoints values: rectangle i is where GenImageFontAtlas put glyph
\* i in the atlas.
FontObject(baseSize, values) ==
    LoadFontEx("font", baseSize, [at |-> values], Cardinality(DOMAIN values),
               PlainEnv(Cardinality(DOMAIN values)),
               ZeroRecs(Cardinality(DOMAIN values))).font

(***************************************************************************)
(* Bounds and input sets of the glyph lookup.                              *)
(***************************************************************************)
MaxCharsCount == 3

\* charsCount as handed to LoadFontEx with fontChars NULL: 0 selects the
\* default of 95 glyphs.
DefaultCharsCounts == (0..MaxCharsCount) \cup {64}

CustomCharsets ==
    { <<63>>, <<65, 63>>, <<105, 65, 63>>, <<65, 105>>, <<65, 65, 63>> }

GlyphFonts ==
    { FontObject(2, FontCharValues(None, n)) : n \in DefaultCharsCounts } \cup
    { FontObject(2, FontCharValues([at |-> SeqToArray(cs)], Len(cs))) : cs \in CustomCharsets }

LookupCodepoints == { 10, 32, 63, 65, 95, 105, 126, 127, 233 }

(***************************************************************************)
(* Bounds and input sets of the atlas builder.                             *)
(***************************************************************************)
MaxGlyphs == 3

\* Bitmap sizes <<width, height>>: an empty bitmap (the space), small glyphs
\* and a wide flat one.
GlyphDims == { <<0, 0>>, <<1, 1>>, <<2, 1>>, <<1, 3>>, <<5, 1>> }

Paddings == { 0, 2 }
AtlasFontSizes == { 1, 3 }
PackMethods == { 0, 1 }

\* Bytes that are no rectangle: bookkeeping of the allocator, pixels.
JunkRec == [x |-> 7, y |-> 7, width |-> 7, height |-> 7]

\* The rectangle arrays of fonts loaded and unloaded before: the allocator
\* hands their memory out again as it was left.
StaleRecs ==
    { FontObject(3, SeqToArray(<<65, 65, 63, 105, 65>>)).recs,
      FontObject(2, SeqToArray(<<65, 63>>)).recs }

\* What a freshly allocated array of n Rectangles may hold: any bits, which
\* is Indeterminate in every rectangle.  The other arrays are contents among
\* them for which the model says what the program computes: the zeroes of
\* fresh pages, junk, junk and zeroes in turn, and the rectangles an array
\* freed before has left there, with zeroes behind them.
HeapRecs(n) ==
    { [i \in 0..(n - 1) |-> Indeterminate],
      ZeroRecs(n),
      [i \in 0..(n - 1) |-> JunkRec],
      [i \in 0..(n - 1) |-> IF i % 2 = 1 THEN JunkRec ELSE ZeroRec] } \cup
    { [i \in 0..(n - 1) |-> IF i \in DOMAIN stale THEN stale[i] ELSE ZeroRec] :
        stale \in StaleRecs }

\* Glyph i with a bitmap of the given size; its bytes differ from pixel to
\* pixel and from glyph to glyph, and none is 0.
GlyphOfDims(i, d) ==
    [ value |-> DEFAULT_FIRST_CHAR + i,
      image |-> [ width |-> d[1], height |-> d[2],
                  data  |-> [k \in 0..(d[1] * d[2] - 1) |-> 1 + ((16 * i + k) % 255)] ] ]

GlyphSets ==
    { [i \in 0..(Len(ds) - 1) |-> GlyphOfDims(i, ds[i + 1])] :
        ds \in (SeqsUpTo(GlyphDims, MaxGlyphs) \ { <<>> }) }

(***************************************************************************)
(* MeasureTextEx and DrawTextEx, src/text.c:376-475.                       *)
(*                                                                         *)
(* The code computes in single precision; the model computes exactly.  A   *)
(* scaled value is kept as a fraction [num, den] whose denominator is      *)
(* baseSize (2*baseSize for the measured height, which counts half base    *)
(* sizes).  The glyph metrics and the spacing are whole numbers.           *)
(***************************************************************************)
Fraction(n, d) == [num |-> n, den |-> d]

\* font.chars[index] and font.recs[index]: an index outside of the arrays
\* reads whatever lies there in memory, a glyph record and a rectangle or
\* Indeterminate.
CharAt(f, i, stray) == IF i \in DOMAIN f.chars THEN f.chars[i] ELSE stray.chars
RecAt(f, i, stray) == IF i \in DOMAIN f.recs THEN f.recs[i] ELSE stray.recs

\* strlen(text)
StrLen(t) == Len(t)

\* Lines 447-450, and line 394 of DrawTextEx: the bytes a step of the walk
\* moves on by.  A failed decode moves on by one byte, whatever count the
\* decoder reported.
StepBytesAsDecoded(code, bytesProcessed) ==
    IF bytesProcessed = 0 THEN 1 ELSE bytesProcessed

StepBytes(code, bytesProcessed) ==
    IF code = \H3f THEN 1 ELSE bytesProcessed

\* Lines 454-455: what a codepoint that is no newline adds to textWidth.
MeasureAdvance(f, i, stray) ==
    IF IsIndeterminate(CharAt(f, i, stray)) THEN Indeterminate
    ELSE IF CharAt(f, i, stray).advanceX # 0 THEN CharAt(f, i, stray).advanceX
    ELSE IF IsIndeterminate(RecAt(f, i, stray)) THEN Indeterminate
    ELSE RecAt(f, i, stray).width + CharAt(f, i, stray).offsetX

\* Lines 452-456: a codepoint that is no newline adds its advance.
MeasureGlyph(f, st, i, stray) ==
    [st EXCEPT !.textWidth = Plus(st.textWidth, MeasureAdvance(f, i, stray))]

\* Lines 457-463: a newline closes the line.  textHeight2 is twice textHeight,
\* so that the 1.5 base sizes of a line are the whole number 3*baseSize.
MeasureNewlineKeepHeight(f, st) ==
    [st EXCEPT !.tempTextWidth = Larger(st.tempTextWidth, st.textWidth),
               !.lenCounter = 0,
               !.textWidth = 0]

MeasureNewline(f, st) ==
    [st EXCEPT !.tempTextWidth = Larger(st.tempTextWidth, st.textWidth),
               !.lenCounter = 0,
               !.textWidth = 0,
               !.textHeight2 = st.textHeight2 + 3 * f.baseSize]

\* Lines 439-466: the loop from byte i on.
RECURSIVE MeasureWalk(_, _, _, _, _, _)
MeasureWalk(f, mem, len, stray, i, st) ==
    IF i >= len THEN st
    ELSE
      LET counted == [st EXCEPT !.lenCounter = st.lenCounter + 1]
          got     == GetNextCodepoint(mem, i)
          letter  == got.code
          idx     == GetGlyphIndex(f, letter)
          next    == StepBytes(letter, got.bytesProcessed)
          after   == IF letter # \H0a
                         THEN MeasureGlyph(f, counted, idx, stray)
                         ELSE MeasureNewline(f, counted)
          step    == [ start |-> i, bytes |-> next, codepoint |-> letter, index |-> idx,
                       advance |-> IF letter # \H0a
                                       THEN MeasureAdvance(f, idx, stray) ELSE 0 ]
      IN  MeasureWalk(f, mem, len, stray, i + (next - 1) + 1,
                      [after EXCEPT
                          !.tempLen = IF after.tempLen < after.lenCounter
                                      THEN after.lenCounter ELSE after.tempLen,
                          !.steps = Append(after.steps, step)])

MeasureTextEx(f, t, mem, fontSize, spacing, stray) ==
    LET st == MeasureWalk(f, mem, StrLen(t), stray, 0,
                          [ tempLen |-> 0, lenCounter |-> 0,
                            textWidth |-> 0, tempTextWidth |-> 0,
                            textHeight2 |-> 2 * f.baseSize,
                            steps |-> << >> ])
        widest == Larger(st.tempTextWidth, st.textWidth)
    IN  [ x |-> IF IsIndeterminate(widest) THEN Indeterminate
                ELSE Fraction(widest * fontSize + ((st.tempLen - 1) * spacing) * f.baseSize,
                              f.baseSize),
          y |-> Fraction(st.textHeight2 * fontSize, 2 * f.baseSize),
          tempLen |-> st.tempLen,
          steps |-> st.steps ]

\* Lines 415-416: the pen moves by the glyph's advance, scaled, plus spacing.
\* The result is the unscaled advance.
DrawAdvance(f, i, stray) ==
    IF IsIndeterminate(CharAt(f, i, stray)) THEN Indeterminate
    ELSE IF CharAt(f, i, stray).advanceX = 0
    THEN IF IsIndeterminate(RecAt(f, i, stray)) THEN Indeterminate
         ELSE RecAt(f, i, stray).width
    ELSE CharAt(f, i, stray).advanceX

\* Lines 385-420: the loop from byte i on.  textOffsetX counts 1/baseSize
\* pixels and is indeterminate once an indeterminate advance was added to it;
\* textOffsetY is an int.
RECURSIVE DrawWalk(_, _, _, _, _, _, _, _, _)
DrawWalk(f, mem, length, position, fontSize, spacing, stray, i, st) ==
    IF i >= length THEN st
    ELSE
      LET got       == GetNextCodepoint(mem, i)
          codepoint_ == got.code
          idx       == GetGlyphIndex(f, codepoint_)
          count     == StepBytes(codepoint_, got.bytesProcessed)
          glyph     == CharAt(f, idx, stray)
          rec       == RecAt(f, idx, stray)
          advance   == DrawAdvance(f, idx, stray)
          quad      == [ source |-> rec,
                         dest   |->
                           [ x |-> IF IsIndeterminate(glyph) \/ IsIndeterminate(st.textOffsetX)
                                   THEN Indeterminate
                                   ELSE Fraction(position.x * f.baseSize + st.textOffsetX
                                                 + glyph.offsetX * fontSize, f.baseSize),
                             y |-> IF IsIndeterminate(glyph) THEN Indeterminate
                                   ELSE Fraction((position.y + st.textOffsetY) * f.baseSize
                                                 + glyph.offsetY * fontSize, f.baseSize),
                             width  |-> IF IsIndeterminate(rec) THEN Indeterminate
                                        ELSE Fraction(rec.width * fontSize, f.baseSize),
                             height |-> IF IsIndeterminate(rec) THEN Indeterminate
                                        ELSE Fraction(rec.height * fontSize, f.baseSize) ] ]
          after     ==
              IF codepoint_ = \H0a
              THEN [st EXCEPT
                      !.textOffsetY = st.textOffsetY
                          + (((f.baseSize + (f.baseSize \div 2)) * fontSize) \div f.baseSize),
                      !.textOffsetX = 0,
                      !.steps = Append(st.steps, [ start |-> i, bytes |-> count,
                                                   codepoint |-> codepoint_,
                                                   index |-> idx, advance |-> 0 ])]
              ELSE [st EXCEPT
                      !.quads = IF (codepoint_ # 32) /\ (codepoint_ # 9)
                                THEN Append(st.quads, quad) ELSE st.quads,
                      !.textOffsetX =
                          IF IsIndeterminate(advance) THEN Indeterminate
                          ELSE Plus(st.textOffsetX, advance * fontSize + spacing * f.baseSize),
                      !.steps = Append(st.steps, [ start |-> i, bytes |-> count,
                                                   codepoint |-> codepoint_,
                                                   index |-> idx,
                                                   advance |-> advance ])]
      IN  DrawWalk(f, mem, length, position, fontSize, spacing, stray,
                   i + (count - 1) + 1, after)

DrawTextEx(f, t, mem, position, fontSize, spacing, stray) ==
    DrawWalk(f, mem, StrLen(t), position, fontSize, spacing, stray, 0,
             [ textOffsetX |-> 0, textOffsetY |-> 0, quads |-> << >>, steps |-> << >> ])

(***************************************************************************)
(* Bounds and input sets of the text walks.                                *)
(***************************************************************************)
MaxWalkLen == 4

\* '\n', 'A', 'i', and the two bytes of U+00E9, which also make malformed
\* sequences.
WalkBytes == { \H0a, \H41, \H69, \Hc3, \Ha9 }

WalkTexts == SeqsUpTo(WalkBytes, MaxWalkLen)

\* The default charset at base size 32, and a font of three glyphs '?', 'A', 'i'.
WalkFonts ==
    { FontObject(2, FontCharValues(None, 0)),
      FontObject(4, FontCharValues([at |-> SeqToArray(<<63, 65, 105>>)], 3)) }

WalkFontSizes == { 16, 32 }
Spacings == { 0, 2 }
Positions == { [x |-> 10, y |-> 20] }

\* What lies in memory behind the arrays of a font, where index 63 of a font
\* of fewer glyphs reads: any bits, which is Indeterminate for the glyph
\* record, for the rectangle or for both.  The other members are contents
\* among them for which the model says what the program computes: the zeroes
\* of a fresh page, the glyph and the rectangle that arrays freed before have
\* left there (one with an advance, one without), bookkeeping of the
\* allocator in a freed block (ints of a size whose scaled sums single
\* precision holds exactly), and junk.
ZeroStray ==
    [ chars |-> [value |-> 0, offsetX |-> 0, offsetY |-> 0, advanceX |-> 0],
      recs  |-> [x |-> 0, y |-> 0, width |-> 0, height |-> 0] ]

StrayGlyphs ==
    { [ chars |-> Indeterminate, recs |-> Indeterminate ],
      [ chars |-> Indeterminate,
        recs  |-> [x |-> 0, y |-> 0, width |-> 0, height |-> 0] ],
      [ chars |-> [value |-> 0, offsetX |-> 0, offsetY |-> 0, advanceX |-> 0],
        recs  |-> Indeterminate ],
      ZeroStray,
      [ chars |-> [value |-> 0, offsetX |-> 0, offsetY |-> -262144, advanceX |-> 32665],
        recs  |-> [x |-> 0, y |-> 0, width |-> 0, height |-> 0] ],
      [ chars |-> [value |-> 95, offsetX |-> 1, offsetY |-> 1, advanceX |-> 3],
        recs  |-> [x |-> 0, y |-> 0, width |-> 0, height |-> 0] ],
      [ chars |-> [value |-> 63, offsetX |-> 1, offsetY |-> 1, advanceX |-> 0],
        recs  |-> [x |-> 9, y |-> 2, width |-> 1, height |-> 2] ],
      [ chars |-> [value |-> 7, offsetX |-> 7, offsetY |-> 7, advanceX |-> 7],
        recs  |-> [x |-> 7, y |-> 7, width |-> 7, height |-> 7] ] }

\* Index 63 lies inside the arrays of a font of 64 glyphs or more: nothing is
\* read outside of them, and what lies there makes no difference.
StraysOf(f) ==
    IF TEXT_CHARACTER_NOTFOUND \in DOMAIN f.chars
    THEN { ZeroStray }
    ELSE StrayGlyphs

\* Strings for the byte walk alone: '\n', 'A', the lead bytes of sequences of
\* two, three and four bytes, 0xF4 whose second byte is bounded by 0x8F, and
\* 0xA9 which continues the first three and is malformed after 0xF4 and alone.
MaxScanLen == 4

ScanBytes == { \H0a, \H41, \Ha9, \Hc3, \He2, \Hf0, \Hf4 }

ScanTexts == SeqsUpTo(ScanBytes, MaxScanLen)

\* The font of the byte walk: the default charset, 95 glyphs.
ScanFonts == { FontObject(2, FontCharValues(None, 0)) }

(***************************************************************************)
(* Bounds and input sets of the font loading.                              *)
(***************************************************************************)
MaxLoadChars == 3

\* charsCount as handed to LoadFontEx with fontChars NULL: the glyphs of the
\* codepoints 32, 33, ...
LoadCharsCounts == 1..MaxLoadChars

LoadFontSizes == { 2, 3 }

\* GetFontDefault().texture.id: 0 before the default font is loaded.
DefaultTextureIds == { 0, 1 }

\* The scale and the ascent of a font file: the plain one, and one whose
\* scaled ascent and odd advance widths are truncated.
FontMetrics == { PlainMetrics, [ascent |-> 3, scale |-> [num |-> 1, den |-> 2]] }

\* Ints that fresh memory has held where an int is read before it is
\* written: zero, small ints that glyph records freed before have left there,
\* and bookkeeping of the allocator.
HeapWords == << 0, 1, 4, 5, 32665, -255996736 >>

HeapInts == { HeapWords[k] : k \in 1..Len(HeapWords) }

HeapOffsets == { [offsetX |-> x, offsetY |-> y] : x \in HeapInts, y \in HeapInts }

HeapWord(j) == HeapWords[(j % Len(HeapWords)) + 1]

\* What the fresh array of n glyph records may hold in the offsets of each
\* record: any bits, which is Indeterminate in every record.  The other
\* arrays are contents among them for which the model says what the program
\* computes: the same offsets in all records, or the words of HeapWords one
\* after the other, so that the offsets differ from record to record.
HeapChars(n) ==
    { [i \in 0..(n - 1) |-> Indeterminate] } \cup
    { [i \in 0..(n - 1) |-> offsets] : offsets \in HeapOffsets } \cup
    { [i \in 0..(n - 1) |-> [offsetX |-> HeapWord(k + 2 * i), offsetY |-> HeapWord(k + 2 * i + 1)]] :
        k \in 0..(Len(HeapWords) - 1) }

\* LoadFontData reads the offsets of a glyph it has not stored with FONT_SDF
\* alone.
LoadEnvs(type, n) ==
    { [wild |-> wild, metrics |-> metrics, heapChars |-> heapChars] :
        wild \in WildHandles, metrics \in FontMetrics,
        heapChars \in IF type = "FONT_SDF" THEN HeapChars(n) ELSE { ZeroChars(n) } }

\* The charsets handed to LoadFontEx and LoadFontData: those of the glyph
\* lookup, and one that holds the space twice.
LoadCharsets == CustomCharsets \cup { <<32, 33, 32>> }

(***************************************************************************)
(* The decoder as a state machine: a caller holds a string and decodes at  *)
(* one start position after the other.                                     *)
(***************************************************************************)
IdleDecode == text = <<>> /\ junk = 0 /\ start = 0 /\ decoded = None
IdleGlyph == font = None /\ codepoint = 0 /\ index = None
IdleAtlas == atlasIn = None /\ atlasOut = None
IdleWalk == layout = None /\ measured = None /\ drawn = None
IdleLoad == loadIn = None /\ loaded = None /\ unloaded = None

InitDecode ==
    /\ text \in DecoderTexts
    /\ junk \in JunkBytes
    /\ start = 0
    /\ decoded = None
    /\ phase = "decode"
    /\ IdleGlyph /\ IdleAtlas /\ IdleWalk /\ IdleLoad

Decode ==
    /\ phase = "decode"
    /\ decoded = None
    /\ decoded' = GetNextCodepoint(TextMem(text, junk), start)
    /\ UNCHANGED <<phase, text, junk, start, glyphVars, atlasVars, walkVars, loadVars>>

\* The caller moves on to the next codepoint as the walks do, lines 439-450:
\* by the bytes of the step, and only to a byte before the terminating null.
NextByte ==
    /\ phase = "decode"
    /\ decoded # None
    /\ start + StepBytes(decoded.code, decoded.bytesProcessed) < Len(text)
    /\ start' = start + StepBytes(decoded.code, decoded.bytesProcessed)
    /\ decoded' = None
    /\ UNCHANGED <<phase, text, junk, glyphVars, atlasVars, walkVars, loadVars>>

NextDecode == Decode \/ NextByte

SpecDecode == InitDecode /\ [][NextDecode]_vars

(***************************************************************************)
(* The glyph lookup as a state machine: a caller holds a Font and looks up *)
(* one codepoint after the other.                                          *)
(***************************************************************************)
InitGlyph ==
    /\ phase = "glyph"
    /\ font \in GlyphFonts
    /\ codepoint \in LookupCodepoints
    /\ index = None
    /\ IdleDecode /\ IdleAtlas /\ IdleWalk /\ IdleLoad

Lookup ==
    /\ phase = "glyph"
    /\ index = None
    /\ index' = [ret |-> GetGlyphIndex(font, codepoint)]
    /\ UNCHANGED <<phase, font, codepoint, decodeVars, atlasVars, walkVars, loadVars>>

NextLookup ==
    /\ phase = "glyph"
    /\ index # None
    /\ \E cp \in LookupCodepoints : cp # codepoint /\ codepoint' = cp
    /\ index' = None
    /\ UNCHANGED <<phase, font, decodeVars, atlasVars, walkVars, loadVars>>

NextGlyph == Lookup \/ NextLookup

SpecGlyph == InitGlyph /\ [][NextGlyph]_vars

(***************************************************************************)
(* The atlas builder as a state machine: one call per glyph set.           *)
(***************************************************************************)
InitAtlas ==
    /\ phase = "atlas"
    /\ \E chars \in GlyphSets, fontSize \in AtlasFontSizes, padding \in Paddings,
          packMethod \in PackMethods :
          \E heap \in HeapRecs(Cardinality(DOMAIN chars)) :
            atlasIn = [ chars |-> chars, charsCount |-> Cardinality(DOMAIN chars),
                        fontSize |-> fontSize, padding |-> padding,
                        packMethod |-> packMethod, heap |-> heap ]
    /\ atlasOut = None
    /\ IdleDecode /\ IdleGlyph /\ IdleWalk /\ IdleLoad

GenAtlas ==
    /\ phase = "atlas"
    /\ atlasOut = None
    /\ atlasOut' = GenImageFontAtlas(atlasIn.chars, atlasIn.charsCount, atlasIn.fontSize,
                                     atlasIn.padding, atlasIn.packMethod, atlasIn.heap)
    /\ UNCHANGED <<phase, atlasIn, decodeVars, glyphVars, walkVars, loadVars>>

NextAtlas == GenAtlas

SpecAtlas == InitAtlas /\ [][NextAtlas]_vars

(***************************************************************************)
(* The text walks as a state machine: a caller measures and draws the same *)
(* string with the same font, size and spacing, in either order.           *)
(***************************************************************************)
InitWalk ==
    /\ phase = "walk"
    /\ text \in WalkTexts
    /\ junk \in JunkBytes
    /\ font \in WalkFonts
    /\ \E position \in Positions, fontSize \in WalkFontSizes, spacing \in Spacings,
          stray \in StraysOf(font) :
            layout = [ position |-> position, fontSize |-> fontSize,
                       spacing |-> spacing, stray |-> stray ]
    /\ measured = None
    /\ drawn = None
    /\ start = 0 /\ decoded = None /\ codepoint = 0 /\ index = None
    /\ IdleAtlas /\ IdleLoad

Measure ==
    /\ phase = "walk"
    /\ measured = None
    /\ measured' = MeasureTextEx(font, text, TextMem(text, junk), layout.fontSize,
                                 layout.spacing, layout.stray)
    /\ UNCHANGED <<phase, decodeVars, glyphVars, atlasVars, layout, drawn, loadVars>>

Draw ==
    /\ phase = "walk"
    /\ drawn = None
    /\ drawn' = DrawTextEx(font, text, TextMem(text, junk), layout.position,
                           layout.fontSize, layout.spacing, layout.stray)
    /\ UNCHANGED <<phase, decodeVars, glyphVars, atlasVars, layout, measured, loadVars>>

NextWalk == Measure \/ Draw

SpecWalk == InitWalk /\ [][NextWalk]_vars

(***************************************************************************)
(* The byte walk of the text walks as a state machine: a caller measures   *)
(* and draws a string of well-formed and malformed sequences with the      *)
(* default charset.                                                        *)
(***************************************************************************)
InitScan ==
    /\ phase = "walk"
    /\ text \in ScanTexts
    /\ junk \in JunkBytes
    /\ font \in ScanFonts
    /\ layout = [ position |-> [x |-> 10, y |-> 20], fontSize |-> 32, spacing |-> 2,
                  stray |-> CHOOSE g \in StraysOf(font) : TRUE ]
    /\ measured = None
    /\ drawn = None
    /\ start = 0 /\ decoded = None /\ codepoint = 0 /\ index = None
    /\ IdleAtlas /\ IdleLoad

SpecScan == InitScan /\ [][NextWalk]_vars

(***************************************************************************)
(* Font loading as a state machine: a caller either loads a Font from a    *)
(* file with LoadFont or LoadFontEx and unloads what it returned, or loads *)
(* the glyph records alone with LoadFontData.                              *)
(***************************************************************************)
LoadCalls ==
    { [fn |-> "LoadFont", type |-> "FONT_DEFAULT"],
      [fn |-> "LoadFontEx", type |-> "FONT_DEFAULT"] } \cup
    { [fn |-> "LoadFontData", type |-> type] : type \in FontTypes }

\* The size and the charset of a call: LoadFont hands its defaults to
\* LoadFontEx.
LoadSizesOf(call) ==
    IF call.fn = "LoadFont" THEN { DEFAULT_TTF_FONTSIZE } ELSE LoadFontSizes

LoadCharsetsOf(call) ==
    IF call.fn = "LoadFont"
    THEN { [fontChars |-> None, charsCount |-> DEFAULT_TTF_NUMCHARS] }
    ELSE { [fontChars |-> None, charsCount |-> n] : n \in LoadCharsCounts } \cup
         { [fontChars |-> [at |-> SeqToArray(c)], charsCount |-> Len(c)] : c \in LoadCharsets }

InitLoad ==
    /\ phase = "load"
    /\ \E file \in Files, call \in LoadCalls, defaultTextureId \in DefaultTextureIds :
        \E fontSize \in LoadSizesOf(call), cs \in LoadCharsetsOf(call) :
          \E env \in LoadEnvs(call.type, cs.charsCount),
             heap \in IF call.fn = "LoadFontData" THEN { ZeroRecs(cs.charsCount) }
                                                  ELSE HeapRecs(cs.charsCount) :
            loadIn = [ call |-> call.fn, type |-> call.type,
                       file |-> file, fontSize |-> fontSize, fontChars |-> cs.fontChars,
                       charsCount |-> cs.charsCount, env |-> env, heap |-> heap,
                       defaultTextureId |-> defaultTextureId ]
    /\ loaded = None
    /\ unloaded = None
    /\ IdleDecode /\ IdleGlyph /\ IdleAtlas /\ IdleWalk

Load ==
    /\ phase = "load"
    /\ loadIn.call = "LoadFontEx"
    /\ loaded = None
    /\ loaded' = LoadFontEx(loadIn.file, loadIn.fontSize, loadIn.fontChars,
                            loadIn.charsCount, loadIn.env, loadIn.heap)
    /\ UNCHANGED <<phase, decodeVars, glyphVars, atlasVars, walkVars, loadIn, unloaded>>

LoadDefault ==
    /\ phase = "load"
    /\ loadIn.call = "LoadFont"
    /\ loaded = None
    /\ loaded' = LoadFont(loadIn.file, loadIn.env, loadIn.heap)
    /\ UNCHANGED <<phase, decodeVars, glyphVars, atlasVars, walkVars, loadIn, unloaded>>

LoadData ==
    /\ phase = "load"
    /\ loadIn.call = "LoadFontData"
    /\ loaded = None
    /\ loaded' = LoadFontData(loadIn.file, loadIn.fontSize, loadIn.fontChars,
                              loadIn.charsCount, loadIn.type, loadIn.env)
    /\ UNCHANGED <<phase, decodeVars, glyphVars, atlasVars, walkVars, loadIn, unloaded>>

Unload ==
    /\ phase = "load"
    /\ loadIn.call # "LoadFontData"
    /\ loaded # None
    /\ ~loaded.crashed
    /\ unloaded = None
    /\ unloaded' = UnloadFont(loaded.font, loadIn.defaultTextureId)
    /\ UNCHANGED <<phase, decodeVars, glyphVars, atlasVars, walkVars, loadIn, loaded>>

NextLoad == Load \/ LoadDefault \/ LoadData \/ Unload

SpecLoad == InitLoad /\ [][NextLoad]_vars

(***************************************************************************)
(* All of the module's operations.                                         *)
(***************************************************************************)
Init == InitDecode \/ InitGlyph \/ InitAtlas \/ InitWalk \/ InitScan \/ InitLoad

Next == NextDecode \/ NextGlyph \/ NextAtlas \/ NextWalk \/ NextLoad

Spec == Init /\ [][Next]_vars

(***************************************************************************)
(* The UTF-8 table of RFC 3629, which the claims about the decoder are     *)
(* stated against.                                                         *)
(***************************************************************************)
IsScalarValue(c) == (c >= 0) /\ (c <= \H10ffff) /\ ~((c >= \Hd800) /\ (c <= \Hdfff))

UTF8Encode(c) ==
    IF c <= \H7f THEN << c >>
    ELSE IF c <= \H7ff THEN << \Hc0 + (c \div 64), \H80 + (c % 64) >>
    ELSE IF c <= \Hffff
         THEN << \He0 + (c \div 4096), \H80 + ((c \div 64) % 64), \H80 + (c % 64) >>
    ELSE << \Hf0 + (c \div 262144), \H80 + ((c \div 4096) % 64),
            \H80 + ((c \div 64) % 64), \H80 + (c % 64) >>

IsContinuation(b) == (b >= \H80) /\ (b <= \Hbf)

\* The length a lead byte announces: 0 for a byte that starts no sequence of
\* two or more bytes.
NominalLength(b) ==
    IF (b >= \Hc0) /\ (b <= \Hdf) THEN 2
    ELSE IF (b >= \He0) /\ (b <= \Hef) THEN 3
    ELSE IF (b >= \Hf0) /\ (b <= \Hf7) THEN 4
    ELSE 0

\* The bytes of the string from the start position on, terminator included.
BytesFrom(n) == [k \in 1..n |-> TextMem(text, junk)[start + k - 1]]
InString(n) == start + n - 1 <= Len(text)

\* The scalar value whose encoding in n bytes carries the payload bits of bs.
PayloadOf(bs, n) ==
    IF n = 1 THEN bs[1]
    ELSE IF n = 2 THEN ((bs[1] % 32) * 64) + (bs[2] % 64)
    ELSE IF n = 3 THEN ((bs[1] % 16) * 4096) + ((bs[2] % 64) * 64) + (bs[3] % 64)
    ELSE ((bs[1] % 8) * 262144) + ((bs[2] % 64) * 4096) + ((bs[3] % 64) * 64) + (bs[4] % 64)

\* C1: decoding the standard UTF-8 encoding of a scalar value c (surrogates
\* excluded) returns c and a consumed-byte count equal to the length of the
\* encoding.
C1_RoundTrip ==
    (phase = "decode" /\ decoded # None) =>
        \A n \in 1..4 :
            LET bs == BytesFrom(n)
                c  == PayloadOf(bs, n)
            IN  (InString(n) /\ IsScalarValue(c) /\ UTF8Encode(c) = bs)
                    => (decoded.code = c /\ decoded.bytesProcessed = n)

C1_Witness ==
    /\ phase = "decode" /\ start = 0
    /\ text = << \Hf4, \H8f, \Hbf, \Hbf >>
    /\ decoded # None /\ decoded.code = \H10ffff /\ decoded.bytesProcessed = 4

\* C2: when the first byte is a 2-, 3- or 4-byte lead byte and a continuation
\* byte is missing (the terminator comes first) or lacks the top bits 10, the
\* decoder returns 0x3F and a count between 1 and the nominal length.
BrokenContinuation ==
    LET mem == TextMem(text, junk)
    IN  \E k \in 1..(NominalLength(mem[start]) - 1) :
            /\ start + k <= Len(text)
            /\ ~IsContinuation(mem[start + k])

C2_BrokenContinuation ==
    (phase = "decode" /\ decoded # None /\ BrokenContinuation) =>
        /\ decoded.code = \H3f
        /\ decoded.bytesProcessed >= 1
        /\ decoded.bytesProcessed <= NominalLength(TextMem(text, junk)[start])

C2_Witness ==
    /\ phase = "decode" /\ start = 0
    /\ text = << \He1, \H80 >>
    /\ decoded # None /\ decoded.code = \H3f /\ decoded.bytesProcessed = 3

\* The 1-based position of the first byte that violates the UTF-8 table, 0
\* when the bytes at the start position are a well-formed sequence.
SecondByteOk(b0, b1) ==
    IF b0 = \He0 THEN (b1 >= \Ha0) /\ (b1 <= \Hbf)
    ELSE IF b0 = \Hed THEN (b1 >= \H80) /\ (b1 <= \H9f)
    ELSE IF b0 = \Hf0 THEN (b1 >= \H90) /\ (b1 <= \Hbf)
    ELSE IF b0 = \Hf4 THEN (b1 >= \H80) /\ (b1 <= \H8f)
    ELSE IsContinuation(b1)

FirstOffender ==
    LET mem == TextMem(text, junk)
        b0  == mem[start]
        n   == NominalLength(b0)
    IN  IF b0 <= \H7f THEN 0
        ELSE IF IsContinuation(b0) \/ b0 = \Hc0 \/ b0 = \Hc1 \/ b0 >= \Hf5 THEN 1
        ELSE IF ~SecondByteOk(b0, mem[start + 1]) THEN 2
        ELSE IF n >= 3 /\ ~IsContinuation(mem[start + 2]) THEN 3
        ELSE IF n >= 4 /\ ~IsContinuation(mem[start + 3]) THEN 4
        ELSE 0

\* C3: when validation fails, the consumed-byte count is the 1-based position
\* of the first byte that violates the UTF-8 table.
C3_CountIsFirstOffender ==
    (phase = "decode" /\ decoded # None /\ FirstOffender # 0) =>
        (decoded.code = \H3f /\ decoded.bytesProcessed = FirstOffender)

\* C4: the decoder reads text[0], text[1], ... in order, reads no byte after
\* the terminating null, and reads text[k+1] only when text[k] was not null.
C4_NoReadPastTerminator ==
    (phase = "decode" /\ decoded # None) =>
        \A k \in 1..Len(decoded.reads) :
            /\ decoded.reads[k] = k - 1
            /\ start + decoded.reads[k] <= Len(text)
            /\ (k > 1 => TextMem(text, junk)[start + decoded.reads[k - 1]] # 0)

C4_Witness ==
    /\ phase = "decode" /\ start = 0
    /\ text = << \He1, \H80 >>
    /\ decoded # None /\ decoded.reads = << 0, 1, 2 >>

\* C5: GetGlyphIndex returns an index whose glyph has the codepoint looked up
\* when the font holds it, and otherwise the index of the glyph whose
\* codepoint is the replacement character 0x3F, in every font that holds a
\* glyph for 0x3F.
C5_LookupOrReplacement ==
    (/\ phase = "glyph" /\ index # None
     /\ \E i \in DOMAIN font.chars : font.chars[i].value = \H3f) =>
        LET wanted == IF \E i \in DOMAIN font.chars : font.chars[i].value = codepoint
                      THEN codepoint ELSE \H3f
        IN  /\ index.ret \in DOMAIN font.chars
            /\ font.chars[index.ret].value = wanted

\* The sum of the padded glyph areas of the call.
AtlasArea == RequiredArea(atlasIn.chars, atlasIn.charsCount, atlasIn.padding)

PowersOfTwo == { 2 ^ k : k \in 0..10 }
IsPowerOfTwo(n) == n \in PowersOfTwo

\* C6 as stated: for every glyph set and padding, the atlas is square and its
\* side is the smallest power of two S with S*S >= 1.3 * the sum of the padded
\* glyph areas.
C6_SmallestSideForArea ==
    (phase = "atlas" /\ atlasOut # None) =>
        LET side == atlasOut.atlas.width
        IN  /\ atlasOut.atlas.height = side
            /\ IsPowerOfTwo(side)
            /\ 10 * side * side >= 13 * AtlasArea
            /\ \A pot \in PowersOfTwo : 10 * pot * pot >= 13 * AtlasArea => side <= pot

\* The areas from which on the single-precision guess of lines 238-239 can
\* round to a power of two that lies below 1.3 * sqrt(area).
RoundedAreas == 2481837

\* C6 amended: the atlas is square; when the sum of the padded glyph areas is 0
\* its side is 0, which is no power of two, and for a sum above 0 and below
\* RoundedAreas its side is the smallest power of two S with
\* S >= 1.3 * sqrt(sum), that is with S*S >= 1.69 * sum.
C6_SmallestSideForRoot ==
    (phase = "atlas" /\ atlasOut # None /\ AtlasArea < RoundedAreas) =>
        LET side == atlasOut.atlas.width
        IN  /\ atlasOut.atlas.height = side
            /\ IF AtlasArea = 0
               THEN side = 0 /\ ~IsPowerOfTwo(side)
               ELSE /\ IsPowerOfTwo(side)
                    /\ 100 * side * side >= 169 * AtlasArea
                    /\ \A pot \in PowersOfTwo :
                          100 * pot * pot >= 169 * AtlasArea => side <= pot

\* Three padded areas of 1 give a side of 4, where 2*2 >= 1.3*3.
C6_Witness ==
    /\ phase = "atlas" /\ atlasOut # None
    /\ AtlasArea = 3
    /\ atlasOut.atlas.width = 4

\* A glyph set without any area has given an atlas without pixels.
EmptyAtlasReached ==
    /\ phase = "atlas" /\ atlasOut # None
    /\ AtlasArea = 0
    /\ atlasOut.atlas.width = 0

\* C7: under either packing method, every returned rectangle i has the width
\* and height of glyph i's bitmap; a rectangle the call left indeterminate
\* has not.
C7_RecsHaveBitmapSize ==
    (phase = "atlas" /\ atlasOut # None) =>
        \A i \in 0..(atlasIn.charsCount - 1) :
            /\ ~IsIndeterminate(atlasOut.recs[i])
            /\ atlasOut.recs[i].width = atlasIn.chars[i].image.width
            /\ atlasOut.recs[i].height = atlasIn.chars[i].image.height

\* The number of newline codepoints of the string.
NewlineCount == Cardinality({ k \in 1..Len(text) : text[k] = \H0a })

\* C8 as stated: the measured height is (k + 1) line heights of 1.5 x base
\* size, scaled by fontSize/baseSize, for a text of k newlines.
C8_HeightIsLinesTimesOneAndAHalf ==
    (phase = "walk" /\ measured # None) =>
        measured.y.num * 2 = (3 * (NewlineCount + 1) * layout.fontSize) * measured.y.den

\* C8 amended: the measured height is one base size plus 1.5 x base size for
\* each of the k newlines, scaled by fontSize/baseSize.
C8_HeightIsBasePlusNewlines ==
    (phase = "walk" /\ measured # None) =>
        measured.y.num * (2 * font.baseSize)
            = ((2 * font.baseSize + 3 * font.baseSize * NewlineCount) * layout.fontSize)
              * measured.y.den

C8_Witness ==
    /\ phase = "walk" /\ measured # None
    /\ text = << \H41, \H0a, \H69 >>
    /\ font.baseSize = 2 /\ layout.fontSize = 32
    /\ measured.y.num = 80 * measured.y.den

\* The lines of a walk: for each line the sum of its advances and the number
\* of its codepoints, the newline not counted.
RECURSIVE LinesOf(_, _, _)
LinesOf(steps, k, line) ==
    IF k > Len(steps) THEN << line >>
    ELSE IF steps[k].codepoint = \H0a
         THEN << line >> \o LinesOf(steps, k + 1, [width |-> 0, count |-> 0])
         ELSE LinesOf(steps, k + 1, [width |-> line.width + steps[k].advance,
                                     count |-> line.count + 1])

MeasuredLines == LinesOf(measured.steps, 1, [width |-> 0, count |-> 0])

\* C9: the measured width is the widest line's width scaled to the target
\* size plus (n - 1) x spacing, n the number of codepoints of that same line,
\* in every walk whose width is determinate.
C9_WidthOfWidestLine ==
    (phase = "walk" /\ measured # None /\ ~IsIndeterminate(measured.x)) =>
        \E l \in 1..Len(MeasuredLines) :
            /\ \A m \in 1..Len(MeasuredLines) : MeasuredLines[m].width <= MeasuredLines[l].width
            /\ measured.x.num * font.baseSize
                 = (MeasuredLines[l].width * layout.fontSize
                    + (MeasuredLines[l].count - 1) * layout.spacing * font.baseSize)
                   * measured.x.den

\* C10: both walks add the same unscaled advance for every codepoint that is
\* no newline and whose advance is determinate in both.
C10_SameAdvances ==
    (phase = "walk" /\ measured # None /\ drawn # None) =>
        /\ Len(measured.steps) = Len(drawn.steps)
        /\ \A k \in 1..Len(measured.steps) :
              (/\ measured.steps[k].codepoint # \H0a
               /\ ~IsIndeterminate(measured.steps[k].advance)
               /\ ~IsIndeterminate(drawn.steps[k].advance)) =>
                  measured.steps[k].advance = drawn.steps[k].advance

\* C11: when stbtt_InitFont fails on the bytes of the file, LoadFontData makes
\* no query on the font handle and returns NULL, and LoadFontEx returns a Font
\* without glyphs, rectangles and texture.
C11_InitFailureYieldsEmptyFont ==
    (phase = "load" /\ loaded # None /\ FileOpens(loadIn.file) /\ ~InitFont(loadIn.file)) =>
        /\ ~loaded.crashed
        /\ loaded.queries = {}
        /\ IF loadIn.call = "LoadFontData"
           THEN loaded.chars = NullArray
           ELSE /\ loaded.font.chars = NullArray
                /\ loaded.font.recs = NullArray
                /\ loaded.font.texture.id = 0

\* The buffers UnloadFont released, NULL pointers left out.
ReleasedBuffers ==
    { unloaded.released[k] : k \in 1..Len(unloaded.released) } \ { NullBuf }

\* C12: UnloadFont reads no glyph record through a NULL glyph array and
\* releases every buffer the loaded Font owns exactly once, or none of them
\* when the Font has the default font's texture id.
C12_UnloadReleasesWhatIsOwned ==
    (phase = "load" /\ unloaded # None) =>
        /\ ~unloaded.crashed
        /\ unloaded.nullReads = {}
        /\ \/ /\ loaded.font.texture.id = loadIn.defaultTextureId
              /\ unloaded.released = <<>>
           \/ /\ ReleasedBuffers = loaded.live
              /\ \A j, k \in 1..Len(unloaded.released) :
                    (j # k /\ unloaded.released[j] # NullBuf)
                        => unloaded.released[j] # unloaded.released[k]

\* C13: with row packing, every glyph copied into the atlas is written inside
\* of the atlas buffer, and its rectangle keeps padding pixels to each edge of
\* the atlas.
C13_RowPackedInsideAtlas ==
    (phase = "atlas" /\ atlasOut # None /\ atlasIn.packMethod = 0) =>
        /\ atlasOut.outside = {}
        /\ \A i \in 0..(atlasOut.copied - 1) :
              LET rec == atlasOut.recs[i]
              IN  /\ atlasIn.padding <= rec.x
                  /\ rec.x + rec.width + atlasIn.padding <= atlasOut.atlas.width
                  /\ atlasIn.padding <= rec.y
                  /\ rec.y + rec.height + atlasIn.padding <= atlasOut.atlas.height

\* C14: with row packing, every pixel (x, y) of every glyph copied into the
\* atlas is found at (recs[i].x + x, recs[i].y + y) of the returned atlas,
\* first channel 255 and second channel the glyph's byte.
C14_AtlasHoldsGlyphPixels ==
    (phase = "atlas" /\ atlasOut # None /\ atlasIn.packMethod = 0) =>
        \A i \in 0..(atlasOut.copied - 1) :
            LET image == atlasIn.chars[i].image
                rec   == atlasOut.recs[i]
                side  == atlasOut.atlas.width
            IN  \A x \in 0..(image.width - 1), y \in 0..(image.height - 1) :
                    /\ rec.x + x < side
                    /\ rec.y + y < side
                    /\ atlasOut.atlas.data[2 * ((rec.y + y) * side + rec.x + x)] = 255
                    /\ atlasOut.atlas.data[2 * ((rec.y + y) * side + rec.x + x) + 1]
                         = image.data[y * image.width + x]

\* The steps of a walk start at byte 0, each at the byte the one before moved
\* on to and before the terminating null, and the last moves on to the
\* terminating null.
WalkIsExact(steps) ==
    /\ (steps = << >>) <=> (Len(text) = 0)
    /\ \A k \in 1..Len(steps) :
          /\ steps[k].start < Len(text)
          /\ steps[k].start = IF k = 1 THEN 0 ELSE steps[k - 1].start + steps[k - 1].bytes
    /\ steps # << >> => steps[Len(steps)].start + steps[Len(steps)].bytes = Len(text)

\* C15: both walks start every decode before the terminating null, end at the
\* terminating null, and start their decodes at the same bytes.
C15_WalksEndAtTerminator ==
    (phase = "walk" /\ measured # None /\ drawn # None) =>
        /\ WalkIsExact(measured.steps)
        /\ WalkIsExact(drawn.steps)
        /\ Len(measured.steps) = Len(drawn.steps)
        /\ \A k \in 1..Len(measured.steps) : measured.steps[k].start = drawn.steps[k].start

\* A truncated three-byte sequence ends the string: 'A', then 0xE2 0xA9 and
\* the terminating null, walked in three steps of one byte.
C15_Witness ==
    /\ phase = "walk" /\ measured # None /\ drawn # None
    /\ text = << \H41, \He2, \Ha9 >>
    /\ Len(measured.steps) = 3
    /\ measured.steps[2].codepoint = \H3f
    /\ drawn.steps[3].start = 2

\* C16: the index GetGlyphIndex returns lies inside the glyph and rectangle
\* arrays of the font, for every font of one glyph or more.
C16_IndexInsideArrays ==
    (phase = "glyph" /\ index # None /\ font.charsCount >= 1) =>
        index.ret \in 0..(font.charsCount - 1)

====
